---- MODULE Spec2Model ----
(***************************************************************************)
(* TIMDEX index manager (tim): the alias/index lifecycle of                *)
(* src/tim/opensearch.py against an OpenSearch cluster.                    *)
(*                                                                         *)
(* A name (index, alias, source) is a sequence of tokens; the token "-"    *)
(* is the separator character of index names (<source>-<timestamp>).      *)
(* The cluster is the set of existing indexes and the set of               *)
(* <<alias, index>> links.  An alias exists iff it has a link.             *)
(***************************************************************************)
EXTENDS Integers, Sequences, FiniteSets, TLC

VARIABLES
    indexes,    \* the names of the indexes that exist in the cluster
    links,      \* alias membership: a set of <<alias, index>>
    docs,       \* the documents of the indexes: a set of <<index, record id>>
    req,        \* per process: the request a promote has built and not yet sent
    last,       \* per process: the outcome of the call that has just completed
    cmd         \* per process: the command of cli.py that is running

vars == <<indexes, links, docs, req, last, cmd>>

----------------------------------------------------------------------------
(* Bounds of the model *)

MaxStamp == 3       \* wall-clock readings 1..MaxStamp
MaxExtra == 2       \* longest extra_aliases list handed to promote_index
MaxRecords == 3     \* longest record stream handed to a bulk function
MaxChunk == 2       \* most actions the bulk helper fits into one request
MaxInitLinks == 2   \* alias links of the cluster when the tool first meets it

----------------------------------------------------------------------------
(* Names *)

Dash == "-"

PRIMARY_ALIAS == <<"all", Dash, "current">>

VALID_SOURCES == {<<"alma">>, <<"dspace">>}

\* aliases a caller passes as extra_aliases: the alias named after a source
\* (reindex-source) and one more
ExtraAliasNames == {<<"alma">>, <<"timdex">>}

AliasNames == {PRIMARY_ALIAS} \cup ExtraAliasNames

Stamps == 1..MaxStamp

\* strftime('%Y-%m-%dt%H-%M-%S'): a timestamp has separators of its own
Timestamp(t) == <<"2022", Dash, ToString(t)>>

generate_index_name(source, t) == source \o <<Dash>> \o Timestamp(t)

\* the index names of the model: every reading for alma, one for dspace
IndexNames ==
    {generate_index_name(<<"alma">>, t) : t \in Stamps}
        \cup {generate_index_name(<<"dspace">>, 1)}

\* index_name.split("-")[0]: the tokens before the first separator
RECURSIVE SplitFirst(_)
SplitFirst(s) ==
    IF s = <<>> \/ Head(s) = Dash
    THEN <<>>
    ELSE <<Head(s)>> \o SplitFirst(Tail(s))

\* the variant that cuts at the last separator (rsplit)
RECURSIVE SplitLast(_)
SplitLast(s) ==
    IF s = <<>> THEN <<>>
    ELSE IF s[Len(s)] = Dash THEN SubSeq(s, 1, Len(s) - 1)
    ELSE SplitLast(SubSeq(s, 1, Len(s) - 1))

get_source_from_index_rsplit(index_name) == SplitLast(index_name)

get_source_from_index(index_name) == SplitFirst(index_name)

----------------------------------------------------------------------------
(* Python values *)

None == [some |-> FALSE]
Some(v) == [some |-> TRUE, val |-> v]

EmptyDict == <<>>

RECURSIVE SetToSeq(_)
SetToSeq(S) ==
    IF S = {} THEN <<>>
    ELSE LET x == CHOOSE y \in S : TRUE IN <<x>> \o SetToSeq(S \ {x})

RECURSIVE Reverse(_)
Reverse(s) == IF s = <<>> THEN <<>> ELSE Reverse(Tail(s)) \o <<Head(s)>>

SeqRange(s) == {s[k] : k \in DOMAIN s}

RECURSIVE Concat(_)
Concat(ss) == IF ss = <<>> THEN <<>> ELSE Head(ss) \o Concat(Tail(ss))

----------------------------------------------------------------------------
(* The cluster's endpoints, as the client calls them *)

\* GET _cat/aliases: one row per link; the cluster chooses the row order
CatAliases(lnk, rev) ==
    LET rows == SetToSeq(lnk)
        ordered == IF rev THEN Reverse(rows) ELSE rows
    IN [k \in DOMAIN ordered |-> [alias |-> ordered[k][1], index |-> ordered[k][2]]]

RECURSIVE ApplyAliasActions(_, _)
ApplyAliasActions(lnk, actions) ==
    IF actions = <<>> THEN lnk
    ELSE LET a == Head(actions)
             l == <<a.alias, a.index>>
         IN ApplyAliasActions(IF a.type = "add" THEN lnk \cup {l} ELSE lnk \ {l},
                              Tail(actions))

\* POST _aliases: every action is applied, or none is.  An action that names
\* a missing index fails the request; the removal of a link that is not there
\* changes nothing.  fault is a not-found failure of another kind.
update_aliases(idx, lnk, body, fault) ==
    IF fault # "none"
    THEN [status |-> "404", type |-> fault, links |-> lnk]
    ELSE IF \E k \in DOMAIN body : body[k].index \notin idx
    THEN [status |-> "404", type |-> "index_not_found_exception", links |-> lnk]
    ELSE [status |-> "200", type |-> "", links |-> ApplyAliasActions(lnk, body)]

ClusterFaults == {"none", "resource_not_found_exception"}

----------------------------------------------------------------------------
(* Queries of opensearch.py *)

RECURSIVE get_aliases_loop(_, _)
get_aliases_loop(response, aliases) ==
    IF response = <<>> THEN aliases
    ELSE LET item == Head(response)
         IN get_aliases_loop(
                Tail(response),
                IF item.alias \in DOMAIN aliases
                THEN [aliases EXCEPT ![item.alias] = Append(@, item.index)]
                ELSE (item.alias :> <<item.index>>) @@ aliases)

get_aliases(response) ==
    LET aliases == get_aliases_loop(response, EmptyDict)
    IN IF DOMAIN aliases = {} THEN None ELSE Some(aliases)

\* the indexes of an alias without the filter on the source
source_indexes_of_any_source(indexes_, source) == indexes_

source_indexes_of(indexes_, source) ==
    SelectSeq(indexes_, LAMBDA index : get_source_from_index(index) = source)

\* result[alias] = source_indexes, for every alias of the cluster
all_aliased_result(response, source) ==
    LET aliases == get_aliases(response)
    IN IF aliases.some
       THEN [alias \in DOMAIN aliases.val |->
                source_indexes_of(aliases.val[alias], source)]
       ELSE EmptyDict

\* logger.error calls only for an alias with more than two indexes of the source
all_aliased_errors_over_two(response, source) ==
    LET result == all_aliased_result(response, source)
    IN {<<alias, source, result[alias]>> :
           alias \in {a \in DOMAIN result : Len(result[a]) > 2}}

\* the logger.error calls: one per alias with several indexes of the source
all_aliased_errors(response, source) ==
    LET result == all_aliased_result(response, source)
    IN {<<alias, source, result[alias]>> :
           alias \in {a \in DOMAIN result : Len(result[a]) > 1}}

get_all_aliased_indexes_for_source(response, source) ==
    LET result == all_aliased_result(response, source)
        kept == {k \in DOMAIN result : result[k] # <<>>}
    IN IF kept = {} THEN None ELSE Some([k \in kept |-> result[k]])

get_primary_index_for_source(response, source) ==
    LET aliases == get_all_aliased_indexes_for_source(response, source)
    IN IF aliases.some
       THEN LET primary == IF PRIMARY_ALIAS \in DOMAIN aliases.val
                           THEN aliases.val[PRIMARY_ALIAS]
                           ELSE <<>>
            IN IF primary = <<>>
               THEN [raised |-> "IndexError", value |-> None]
               ELSE [raised |-> "none", value |-> Some(primary[1])]
       ELSE [raised |-> "none", value |-> None]

----------------------------------------------------------------------------
(* Index functions of opensearch.py *)

\* PUT <name>
indices_create(idx, name, fault) ==
    IF fault # "none"
    THEN [status |-> "400", type |-> fault, indexes |-> idx]
    ELSE IF name \in idx
    THEN [status |-> "400", type |-> "resource_already_exists_exception",
          indexes |-> idx]
    ELSE [status |-> "200", type |-> "", indexes |-> idx \cup {name}]

CreateFaults == {"none", "mapper_parsing_exception"}

\* every RequestError wrapped as IndexExistsError
create_index_wraps_all(idx, name, fault) ==
    LET response == indices_create(idx, name, fault)
    IN IF response.status = "200"
       THEN [raised |-> "none", value |-> Some(name), indexes |-> response.indexes]
       ELSE [raised |-> "IndexExistsError", value |-> None, indexes |-> idx]

create_index(idx, name, fault) ==
    LET response == indices_create(idx, name, fault)
    IN IF response.status = "200"
       THEN [raised |-> "none", value |-> Some(name), indexes |-> response.indexes]
       ELSE IF response.type = "resource_already_exists_exception"
       THEN [raised |-> "IndexExistsError", value |-> None, indexes |-> idx]
       ELSE [raised |-> "RequestError", value |-> None, indexes |-> idx]

\* DELETE <index>: the index goes, and its alias links with it
indices_delete(idx, lnk, index) ==
    IF index \notin idx
    THEN [status |-> "404", indexes |-> idx, links |-> lnk]
    ELSE [status |-> "200", indexes |-> idx \ {index},
          links |-> {l \in lnk : l[2] # index}]

\* the NotFoundError of the client let through as it came
delete_index_unclassified(idx, lnk, index) ==
    LET response == indices_delete(idx, lnk, index)
    IN [raised |-> IF response.status = "404" THEN "NotFoundError" ELSE "none",
        indexes |-> response.indexes, links |-> response.links]

delete_index(idx, lnk, index) ==
    LET response == indices_delete(idx, lnk, index)
    IN [raised |-> IF response.status = "404" THEN "IndexNotFoundError" ELSE "none",
        indexes |-> response.indexes, links |-> response.links]

get_or_create_index_from_source(idx, response, source, new, t) ==
    LET found == get_primary_index_for_source(response, source)
        new_index_name == generate_index_name(source, t)
        created == create_index(idx, new_index_name, "none")
    IN IF ~new /\ found.raised # "none"
       THEN [raised |-> found.raised, index |-> None, isnew |-> FALSE,
             indexes |-> idx]
       ELSE IF ~new /\ found.value.some
       THEN [raised |-> "none", index |-> found.value, isnew |-> FALSE,
             indexes |-> idx]
       ELSE [raised |-> created.raised, index |-> created.value,
             isnew |-> created.raised = "none", indexes |-> created.indexes]

\* DELETE <index>/_alias/<alias>
delete_alias(idx, lnk, index, alias, fault) ==
    IF fault # "none"
    THEN [status |-> "404", type |-> fault, links |-> lnk]
    ELSE IF index \notin idx
    THEN [status |-> "404", type |-> "index_not_found_exception", links |-> lnk]
    ELSE IF <<alias, index>> \notin lnk
    THEN [status |-> "404", type |-> "aliases_not_found_exception", links |-> lnk]
    ELSE [status |-> "200", type |-> "", links |-> lnk \ {<<alias, index>>}]

\* remove_alias without the aliases_not_found_exception branch
remove_alias_index_error_only(idx, lnk, index, alias, fault) ==
    LET response == delete_alias(idx, lnk, index, alias, fault)
    IN [raised |->
            IF response.status = "200" THEN "none"
            ELSE IF response.type = "index_not_found_exception"
            THEN "IndexNotFoundError"
            ELSE "NotFoundError",
        links |-> response.links]

remove_alias(idx, lnk, index, alias, fault) ==
    LET response == delete_alias(idx, lnk, index, alias, fault)
    IN [raised |->
            IF response.status = "200" THEN "none"
            ELSE IF response.type = "index_not_found_exception"
            THEN "IndexNotFoundError"
            ELSE IF response.type = "aliases_not_found_exception"
            THEN "AliasNotFoundError"
            ELSE "NotFoundError",
        links |-> response.links]

----------------------------------------------------------------------------
(* promote_index *)

\* all_aliases without the aliases that hold an index of the source
promote_aliases_no_current(current, new_aliases) ==
    {PRIMARY_ALIAS} \cup SeqRange(new_aliases)

\* all_aliases without the primary alias
promote_aliases_no_primary(current, new_aliases) ==
    DOMAIN current \cup SeqRange(new_aliases)

promote_aliases(current, new_aliases) ==
    {PRIMARY_ALIAS} \cup DOMAIN current \cup SeqRange(new_aliases)

RemoveActions(existing, alias) ==
    [k \in DOMAIN existing |->
        [type |-> "remove", index |-> existing[k], alias |-> alias]]

\* removals that keep all but the first index of each alias
promote_removals_first_only(current, index) ==
    LET order == SetToSeq(DOMAIN current)
    IN Concat([k \in DOMAIN order |->
          RemoveActions(
              SelectSeq(SubSeq(current[order[k]], 1, 1),
                        LAMBDA existing_index : existing_index # index),
              order[k])])

\* removals without the existing_index != index filter
promote_removals_unfiltered(current, index) ==
    LET order == SetToSeq(DOMAIN current)
    IN Concat([k \in DOMAIN order |-> RemoveActions(current[order[k]], order[k])])

\* no removals in the request
promote_removals_none(current, index) == <<>>

\* removals from the primary alias alone
promote_removals_primary_only(current, index) ==
    IF PRIMARY_ALIAS \in DOMAIN current
    THEN RemoveActions(
             SelectSeq(current[PRIMARY_ALIAS],
                       LAMBDA existing_index : existing_index # index),
             PRIMARY_ALIAS)
    ELSE <<>>

promote_removals(current, index) ==
    LET order == SetToSeq(DOMAIN current)
    IN Concat([k \in DOMAIN order |->
          RemoveActions(
              SelectSeq(current[order[k]],
                        LAMBDA existing_index : existing_index # index),
              order[k])])

promote_request_body(response, index, extra_aliases) ==
    LET source == get_source_from_index(index)
        found == get_all_aliased_indexes_for_source(response, source)
        current_aliased_source_indexes == IF found.some THEN found.val ELSE EmptyDict
        all_aliases == SetToSeq(promote_aliases(current_aliased_source_indexes,
                                                extra_aliases))
        adds == [k \in DOMAIN all_aliases |->
                    [type |-> "add", index |-> index, alias |-> all_aliases[k]]]
    IN adds \o promote_removals(current_aliased_source_indexes, index)

\* every not-found failure taken for a missing index
promote_error_always_index(response) ==
    IF response.status = "200" THEN "none" ELSE "IndexNotFoundError"

promote_error(response) ==
    IF response.status = "200" THEN "none"
    ELSE IF response.type = "index_not_found_exception" THEN "IndexNotFoundError"
    ELSE "NotFoundError"

----------------------------------------------------------------------------
(* Record functions: the bulk actions of helpers.py *)

VALID_BULK_OPERATIONS == {"create", "delete", "index", "update"}

\* the action parameter as a caller may pass it
BulkOperations == VALID_BULK_OPERATIONS \cup {"wrong"}

RecordIds == {"mit:alma:1", "libguides:2"}

\* a record: a dict with the timdex_record_id field and other fields
Records == {[timdex_record_id |-> id, other_fields |-> "some_data"] : id \in RecordIds}

RECURSIVE SeqsUpTo(_, _)
SeqsUpTo(S, n) ==
    IF n = 0 THEN {<<>>}
    ELSE LET shorter == SeqsUpTo(S, n - 1)
         IN shorter \cup {Append(q, x) : q \in shorter, x \in S}

RecordStreams == SeqsUpTo(Records, MaxRecords)

\* the body of the for loop without the action != "delete" test
bulk_action_doc_always_source(index, record, action) ==
    [_op_type |-> action, _index |-> index, _id |-> record.timdex_record_id,
     _source |-> record]

\* the body of the for loop: the doc that is yielded for one record
bulk_action_doc(index, record, action) ==
    IF action # "delete"
    THEN [_op_type |-> action, _index |-> index, _id |-> record.timdex_record_id,
          _source |-> record]
    ELSE [_op_type |-> action, _index |-> index, _id |-> record.timdex_record_id]

\* the generator object: nothing of the body has run yet
generate_bulk_actions(index, records, action) ==
    [index |-> index, records |-> records, action |-> action,
     consumed |-> 0, state |-> "created"]

\* next() with the validity test after the first record is taken
generator_next_late_check(gen) ==
    IF gen.state \in {"raised", "done"}
    THEN [gen |-> gen, out |-> "StopIteration"]
    ELSE IF gen.consumed = Len(gen.records)
    THEN [gen |-> [gen EXCEPT !.state = "done"], out |-> "StopIteration"]
    ELSE IF gen.action \notin VALID_BULK_OPERATIONS
    THEN [gen |-> [gen EXCEPT !.state = "raised", !.consumed = @ + 1],
          out |-> "ValueError"]
    ELSE [gen |-> [gen EXCEPT !.state = "running", !.consumed = @ + 1],
          out |-> "yield",
          doc |-> bulk_action_doc(gen.index, gen.records[gen.consumed + 1],
                                  gen.action)]

\* next() on the generator: runs the body up to the next yield, the end
\* of the records, or the ValueError
generator_next(gen) ==
    IF gen.state \in {"raised", "done"}
    THEN [gen |-> gen, out |-> "StopIteration"]
    ELSE IF gen.state = "created" /\ gen.action \notin VALID_BULK_OPERATIONS
    THEN [gen |-> [gen EXCEPT !.state = "raised"], out |-> "ValueError"]
    ELSE IF gen.consumed = Len(gen.records)
    THEN [gen |-> [gen EXCEPT !.state = "done"], out |-> "StopIteration"]
    ELSE [gen |-> [gen EXCEPT !.state = "running", !.consumed = @ + 1],
          out |-> "yield",
          doc |-> bulk_action_doc(gen.index, gen.records[gen.consumed + 1],
                                  gen.action)]

----------------------------------------------------------------------------
(* Record functions: the bulk runs of opensearch.py *)

\* what becomes of one action at the cluster: it is carried out, it is
\* answered without a result the functions know, or it fails with an error
ItemFates == {"done", "noop", "mapper_parsing_exception", "cluster_block_exception"}

\* a delete has no document to parse
FatesOf(op) ==
    IF op = "bulk_index" THEN ItemFates ELSE ItemFates \ {"mapper_parsing_exception"}

\* the cluster on one action: the documents after it and its answer; ok is
\* response[0], result and error are the keys of response[1][<op type>]
\* ("none": the key is not there)
bulk_item_outcome(dcs, doc, fate) ==
    LET key == <<doc._index, doc._id>>
    IN IF fate = "done" /\ doc._op_type = "delete"
       THEN IF key \in dcs
            THEN [docs |-> dcs \ {key},
                  outcome |-> [ok |-> TRUE, result |-> "deleted", error |-> "none"]]
            ELSE [docs |-> dcs,
                  outcome |-> [ok |-> FALSE, result |-> "not_found", error |-> "none"]]
       ELSE IF fate = "done"
       THEN [docs |-> dcs \cup {key},
             outcome |-> [ok |-> TRUE,
                          result |-> IF key \in dcs THEN "updated" ELSE "created",
                          error |-> "none"]]
       ELSE IF fate = "noop"
       THEN [docs |-> dcs,
             outcome |-> [ok |-> TRUE, result |-> "noop", error |-> "none"]]
       ELSE [docs |-> dcs,
             outcome |-> [ok |-> FALSE, result |-> "none", error |-> fate]]

\* one (ok, item) pair of streaming_bulk, for the action doc
item_response(doc, outcome) ==
    [ok |-> outcome.ok, op |-> doc._op_type, _id |-> doc._id,
     result |-> outcome.result, error |-> outcome.error]

NoItem ==
    [ok |-> TRUE, op |-> "none", _id |-> "none", result |-> "none", error |-> "none"]

\* streaming_bulk draws the actions of one request from the generator
RECURSIVE take_actions(_, _)
take_actions(gen, n) ==
    IF n = 0 THEN [gen |-> gen, docs |-> <<>>]
    ELSE LET step == generator_next(gen)
         IN IF step.out = "yield"
            THEN LET rest == take_actions(step.gen, n - 1)
                 IN [gen |-> rest.gen, docs |-> <<step.doc>> \o rest.docs]
            ELSE [gen |-> step.gen, docs |-> <<>>]

\* POST _bulk: the actions of one request are carried out in their order
\* and answered one by one
RECURSIVE bulk_endpoint(_, _, _)
bulk_endpoint(dcs, actions, fates) ==
    IF actions = <<>> THEN [docs |-> dcs, responses |-> <<>>]
    ELSE LET first == bulk_item_outcome(dcs, Head(actions), Head(fates))
             rest == bulk_endpoint(first.docs, Tail(actions), Tail(fates))
         IN [docs |-> rest.docs,
             responses |-> <<item_response(Head(actions), first.outcome)>>
                               \o rest.responses]

\* the for loop ends after any request, with actions left in the generator
responses_exhausted_after_request(r) == r.pending = <<>>

\* the for loop ends: no response is pending and the generator has ended
responses_exhausted(r) ==
    r.pending = <<>> /\ r.gen.consumed = Len(r.records)

bulk_index_result == [created |-> 0, updated |-> 0, errors |-> 0, total |-> 0]

bulk_delete_result == [deleted |-> 0, errors |-> 0, total |-> 0]

\* the loop body with a response of an unexpected shape logged and skipped
bulk_index_item_skips_unexpected(result, response, index) ==
    IF response.ok = FALSE
    THEN IF response.error = "mapper_parsing_exception"
         THEN [raised |-> "none",
               result |-> [result EXCEPT !.errors = @ + 1, !.total = @ + 1]]
         ELSE [raised |-> "BulkIndexingError", record |-> response._id,
               index |-> index, error |-> response.error, result |-> result]
    ELSE IF response.result = "created"
    THEN [raised |-> "none",
          result |-> [result EXCEPT !.created = @ + 1, !.total = @ + 1]]
    ELSE IF response.result = "updated"
    THEN [raised |-> "none",
          result |-> [result EXCEPT !.updated = @ + 1, !.total = @ + 1]]
    ELSE [raised |-> "none", result |-> [result EXCEPT !.errors = @ + 1]]

\* the loop body with every failed item raised
bulk_index_item_all_fatal(result, response, index) ==
    IF response.ok = FALSE
    THEN [raised |-> "BulkIndexingError", record |-> response._id,
          index |-> index, error |-> response.error, result |-> result]
    ELSE IF response.result = "created"
    THEN [raised |-> "none",
          result |-> [result EXCEPT !.created = @ + 1, !.total = @ + 1]]
    ELSE IF response.result = "updated"
    THEN [raised |-> "none",
          result |-> [result EXCEPT !.updated = @ + 1, !.total = @ + 1]]
    ELSE [raised |-> "none",
          result |-> [result EXCEPT !.errors = @ + 1, !.total = @ + 1]]

\* the loop body with every failed item counted
bulk_index_item_all_soft(result, response, index) ==
    IF response.ok = FALSE
    THEN [raised |-> "none",
          result |-> [result EXCEPT !.errors = @ + 1, !.total = @ + 1]]
    ELSE IF response.result = "created"
    THEN [raised |-> "none",
          result |-> [result EXCEPT !.created = @ + 1, !.total = @ + 1]]
    ELSE IF response.result = "updated"
    THEN [raised |-> "none",
          result |-> [result EXCEPT !.updated = @ + 1, !.total = @ + 1]]
    ELSE [raised |-> "none",
          result |-> [result EXCEPT !.errors = @ + 1, !.total = @ + 1]]

\* the body of the for loop of bulk_index, for one response
bulk_index_item(result, response, index) ==
    IF response.ok = FALSE
    THEN IF response.error = "mapper_parsing_exception"
         THEN [raised |-> "none",
               result |-> [result EXCEPT !.errors = @ + 1, !.total = @ + 1]]
         ELSE [raised |-> "BulkIndexingError", record |-> response._id,
               index |-> index, error |-> response.error, result |-> result]
    ELSE IF response.result = "created"
    THEN [raised |-> "none",
          result |-> [result EXCEPT !.created = @ + 1, !.total = @ + 1]]
    ELSE IF response.result = "updated"
    THEN [raised |-> "none",
          result |-> [result EXCEPT !.updated = @ + 1, !.total = @ + 1]]
    ELSE [raised |-> "none",
          result |-> [result EXCEPT !.errors = @ + 1, !.total = @ + 1]]

\* the loop body of bulk_delete counting in total only the deleted items
bulk_delete_item_total_of_deleted(result, response, index) ==
    IF response.result = "deleted"
    THEN [raised |-> "none",
          result |-> [result EXCEPT !.deleted = @ + 1, !.total = @ + 1]]
    ELSE [raised |-> "none",
          result |-> [result EXCEPT !.errors = @ + 1]]

\* the loop body of bulk_delete with the failure branch of bulk_index
bulk_delete_item_fatal(result, response, index) ==
    IF response.result = "not_found"
    THEN [raised |-> "none",
          result |-> [result EXCEPT !.errors = @ + 1, !.total = @ + 1]]
    ELSE IF response.result = "deleted"
    THEN [raised |-> "none",
          result |-> [result EXCEPT !.deleted = @ + 1, !.total = @ + 1]]
    ELSE IF response.ok = FALSE /\ response.error # "mapper_parsing_exception"
    THEN [raised |-> "BulkIndexingError", record |-> response._id,
          index |-> index, error |-> response.error, result |-> result]
    ELSE [raised |-> "none",
          result |-> [result EXCEPT !.errors = @ + 1, !.total = @ + 1]]

\* the body of the for loop of bulk_delete, for one response
bulk_delete_item(result, response, index) ==
    IF response.result = "not_found"
    THEN [raised |-> "none",
          result |-> [result EXCEPT !.errors = @ + 1, !.total = @ + 1]]
    ELSE IF response.result = "deleted"
    THEN [raised |-> "none",
          result |-> [result EXCEPT !.deleted = @ + 1, !.total = @ + 1]]
    ELSE [raised |-> "none",
          result |-> [result EXCEPT !.errors = @ + 1, !.total = @ + 1]]

----------------------------------------------------------------------------
(* Helpers of the commands: get_index_aliases, confirm_action, exit status *)

\* the alias names in the order of Python's string comparison
AliasOrder == <<PRIMARY_ALIAS, <<"alma">>, <<"timdex">>>>

\* sorted() in descending order
sorted_aliases_descending(names) ==
    Reverse(SelectSeq(AliasOrder, LAMBDA alias : alias \in names))

\* sorted(aliases.keys())
sorted_aliases(names) == SelectSeq(AliasOrder, LAMBDA alias : alias \in names)

\* get_index_aliases returning the first alias alone
get_index_aliases_first_only(idx, lnk, index) ==
    LET aliases == sorted_aliases({l[1] : l \in {m \in lnk : m[2] = index}})
    IN IF index \notin idx
       THEN [raised |-> "IndexNotFoundError", value |-> None]
       ELSE [raised |-> "none",
             value |-> IF aliases = <<>> THEN None
                       ELSE Some(SubSeq(aliases, 1, 1))]

\* GET <index>/_alias, the sorted alias names or None
get_index_aliases(idx, lnk, index) ==
    LET aliases == sorted_aliases({l[1] : l \in {m \in lnk : m[2] = index}})
    IN IF index \notin idx
       THEN [raised |-> "IndexNotFoundError", value |-> None]
       ELSE [raised |-> "none",
             value |-> IF aliases = <<>> THEN None ELSE Some(aliases)]

\* what the user types at the prompts of one command, line by line
Answers == {<<"y">>, <<"n">>, <<"x", "N">>}

\* str.lower on the answers
lower(check) == IF check = "N" THEN "n" ELSE IF check = "Y" THEN "y" ELSE check

\* the body of confirm_action: one input() per turn until y or n
RECURSIVE confirm_action_body(_, _)
confirm_action_body(answers, prompts) ==
    IF answers = <<>>
    THEN [raised |-> "EOFError", value |-> FALSE, prompts |-> prompts + 1]
    ELSE IF lower(Head(answers)) = "y"
    THEN [raised |-> "none", value |-> TRUE, prompts |-> prompts + 1]
    ELSE IF lower(Head(answers)) = "n"
    THEN [raised |-> "none", value |-> FALSE, prompts |-> prompts + 1]
    ELSE confirm_action_body(Tail(answers), prompts + 1)

\* a call of confirm_action(index, input_prompt) with these positional
\* arguments: Python binds them to the two parameters before the body runs
confirm_action(arguments, answers) ==
    IF Len(arguments) # 2
    THEN [raised |-> "TypeError", value |-> FALSE, prompts |-> 0]
    ELSE confirm_action_body(answers, 0)

\* the exit status of the process for the exception that ends the command
exit_status(raised) ==
    IF raised = "none" THEN 0
    ELSE IF raised \in {"UsageError", "BadParameter"} THEN 2
    ELSE 1

----------------------------------------------------------------------------
(* Options of create and bulk-update *)

\* bool(value) of an option: None and the empty string are false
truthy(option) == option.some /\ option.val # <<>>

\* datetime.strptime(value, "%Y-%m-%dt%H-%M-%S") succeeds
is_timestamp(s) == Len(s) = 3 /\ s[1] = "2022" /\ s[2] = Dash

\* the click callback of create's --index
validate_index_name(value) ==
    IF ~value.some THEN "none"
    ELSE IF \A k \in DOMAIN value.val : value.val[k] # Dash THEN "BadParameter"
    ELSE IF SplitFirst(value.val) \notin VALID_SOURCES THEN "BadParameter"
    ELSE IF ~is_timestamp(SubSeq(value.val, Len(SplitFirst(value.val)) + 2,
                                 Len(value.val)))
    THEN "BadParameter"
    ELSE "none"

\* all(options) and not any(options) of create and validate_bulk_cli_options
options_error(index, source) ==
    IF truthy(index) /\ truthy(source) THEN "UsageError"
    ELSE IF ~(truthy(index) \/ truthy(source)) THEN "UsageError"
    ELSE "none"

validate_bulk_cli_options(index, source, idx, response) ==
    LET found == get_primary_index_for_source(response, source.val)
    IN IF options_error(index, source) # "none"
       THEN [raised |-> options_error(index, source), index |-> <<>>]
       ELSE IF truthy(index) /\ index.val \notin idx
       THEN [raised |-> "BadParameter", index |-> <<>>]
       ELSE IF truthy(source)
       THEN IF found.raised # "none"
            THEN [raised |-> found.raised, index |-> <<>>]
            ELSE IF ~truthy(found.value)
            THEN [raised |-> "BadParameter", index |-> <<>>]
            ELSE [raised |-> "none", index |-> found.value.val]
       ELSE [raised |-> "none", index |-> index.val]

\* the values of --index: none, the empty string, a name of no source, and
\* the index names
IndexOptions ==
    {None} \cup {Some(name) : name \in IndexNames \cup {<<>>, <<"wrong">>}}

\* the values of --source: click.Choice(VALID_SOURCES)
SourceOptions == {None} \cup {Some(source) : source \in VALID_SOURCES}

\* the two record streams of a dataset: action="index" and action="delete"
Datasets ==
    {d \in RecordStreams \X RecordStreams : Len(d[1]) + Len(d[2]) < MaxRecords}

\* bulk-update with the delete phase first
bulk_update_phases_delete_first == <<"delete", "index">>

\* the phases of bulk-update in the order of its body
bulk_update_phases == <<"index", "delete">>

\* bulk-update without the except clause
index_phase_outcome_uncaught(outcome) ==
    [raised |-> outcome.raised,
     results |-> IF outcome.raised = "none" THEN outcome.result.val
                 ELSE bulk_index_result]

\* try: index_results.update(bulk_index(...)) except BulkIndexingError
index_phase_outcome(outcome) ==
    IF outcome.raised = "BulkIndexingError"
    THEN [raised |-> "none", results |-> bulk_index_result]
    ELSE [raised |-> outcome.raised,
          results |-> IF outcome.raised = "none" THEN outcome.result.val
                      ELSE bulk_index_result]

\* reindex-source indexing before it promotes
reindex_source_steps_index_first == <<"index", "promote">>

\* the steps of reindex-source after the index is created, in the order of
\* its body
reindex_source_steps == <<"promote", "index">>

----------------------------------------------------------------------------
(* State *)

Procs == {1, 2}
Main == 1

NoReq == [op |-> "none"]
Idle == [op |-> "none"]
NoCmd == [op |-> "none"]

Ready(p) == req[p] = NoReq /\ last[p] = Idle

\* extra_aliases: the lists of at most MaxExtra distinct names
ExtraLists ==
    {SetToSeq(S) : S \in {T \in SUBSET ExtraAliasNames : Cardinality(T) <= MaxExtra}}

TypeOK ==
    /\ indexes \subseteq IndexNames
    /\ links \subseteq AliasNames \X indexes
    /\ docs \subseteq indexes \X RecordIds
    /\ DOMAIN req = Procs
    /\ DOMAIN last = Procs
    /\ DOMAIN cmd = Procs

\* any cluster of indexes and aliases, as others have left it; the indexes
\* hold no documents
Init ==
    /\ indexes \in SUBSET IndexNames
    /\ links \in {l \in SUBSET (AliasNames \X indexes) :
                    Cardinality(l) <= MaxInitLinks}
    /\ docs = {}
    /\ req = [p \in Procs |-> NoReq]
    /\ last = [p \in Procs |-> Idle]
    /\ cmd = [p \in Procs |-> NoCmd]

----------------------------------------------------------------------------
(* Operations *)

\* promote_index up to the request: reads the aliases, builds the body.
\* A caller may repeat the promote it has just completed.
PromoteRead(p, index, extra_aliases, rev) ==
    /\ req[p] = NoReq
    /\ \/ last[p] = Idle
       \/ /\ last[p].op = "promote"
          /\ last[p].raised = "none"
          /\ last[p].index = index
          /\ last[p].extra = extra_aliases
    /\ req' = [req EXCEPT ![p] =
                 [op |-> "promote", index |-> index, extra |-> extra_aliases,
                  body |-> promote_request_body(CatAliases(links, rev), index,
                                                extra_aliases),
                  pre |-> links, repeat |-> last[p] # Idle]]
    /\ last' = [last EXCEPT ![p] = Idle]
    /\ UNCHANGED <<indexes, links, docs, cmd>>

\* promote_index from the request on: one update-aliases call and its errors
PromoteSubmit(p, fault) ==
    /\ req[p].op = "promote"
    /\ LET r == req[p]
           response == update_aliases(indexes, links, r.body, fault)
       IN /\ links' = response.links
          /\ last' = [last EXCEPT ![p] =
                        [op |-> "promote", index |-> r.index, extra |-> r.extra,
                         raised |-> promote_error(response), pre |-> r.pre,
                         repeat |-> r.repeat,
                         existed |-> r.index \in indexes, fault |-> fault,
                         overlapped |-> \E q \in Procs \ {p} : req[q] # NoReq]]
    /\ req' = [req EXCEPT ![p] = NoReq]
    /\ UNCHANGED <<indexes, docs, cmd>>

GetAllAliasedIndexesForSource(p, source, rev) ==
    /\ Ready(p)
    /\ LET response == CatAliases(links, rev)
       IN last' = [last EXCEPT ![p] =
                     [op |-> "get_all_aliased_indexes_for_source",
                      source |-> source, response |-> response, raised |-> "none",
                      result |-> get_all_aliased_indexes_for_source(response, source),
                      logged |-> all_aliased_errors(response, source),
                      pre |-> links]]
    /\ UNCHANGED <<indexes, links, docs, req, cmd>>

GetPrimaryIndexForSource(p, source, rev) ==
    /\ Ready(p)
    /\ LET out == get_primary_index_for_source(CatAliases(links, rev), source)
       IN last' = [last EXCEPT ![p] =
                     [op |-> "get_primary_index_for_source", source |-> source,
                      raised |-> out.raised, result |-> out.value, pre |-> links]]
    /\ UNCHANGED <<indexes, links, docs, req, cmd>>

GetOrCreateIndexFromSource(p, source, new, rev, t) ==
    /\ Ready(p)
    /\ LET out == get_or_create_index_from_source(
                      indexes, CatAliases(links, rev), source, new, t)
       IN /\ indexes' = out.indexes
          /\ last' = [last EXCEPT ![p] =
                        [op |-> "get_or_create_index_from_source",
                         source |-> source, new |-> new, now |-> t,
                         raised |-> out.raised,
                         result |-> out.index, isnew |-> out.isnew,
                         pre |-> links, preIndexes |-> indexes]]
    /\ UNCHANGED <<links, docs, req, cmd>>

CreateIndex(p, name, fault) ==
    /\ Ready(p)
    /\ LET out == create_index(indexes, name, fault)
       IN /\ indexes' = out.indexes
          /\ last' = [last EXCEPT ![p] =
                        [op |-> "create_index", index |-> name, fault |-> fault,
                         raised |-> out.raised, result |-> out.value,
                         pre |-> links, preIndexes |-> indexes]]
    /\ UNCHANGED <<links, docs, req, cmd>>

DeleteIndex(p, index) ==
    /\ Ready(p)
    /\ LET out == delete_index(indexes, links, index)
       IN /\ indexes' = out.indexes
          /\ links' = out.links
          /\ docs' = {d \in docs : d[1] \in out.indexes}
          /\ last' = [last EXCEPT ![p] =
                        [op |-> "delete_index", index |-> index,
                         raised |-> out.raised,
                         pre |-> links, preIndexes |-> indexes]]
    /\ UNCHANGED <<req, cmd>>

RemoveAlias(p, index, alias, fault) ==
    /\ Ready(p)
    /\ LET out == remove_alias(indexes, links, index, alias, fault)
       IN /\ links' = out.links
          /\ last' = [last EXCEPT ![p] =
                        [op |-> "remove_alias", index |-> index, alias |-> alias,
                         fault |-> fault, raised |-> out.raised,
                         pre |-> links, preIndexes |-> indexes]]
    /\ UNCHANGED <<indexes, docs, req, cmd>>

\* a caller makes the generator of bulk actions
GenerateBulkActions(p, index, records, action) ==
    /\ Ready(p)
    /\ req' = [req EXCEPT ![p] =
                 [op |-> "generate_bulk_actions",
                  gen |-> generate_bulk_actions(index, records, action),
                  yielded |-> <<>>]]
    /\ UNCHANGED <<indexes, links, docs, last, cmd>>

\* the caller draws from the generator until it ends or raises
GeneratorNext(p) ==
    /\ req[p].op = "generate_bulk_actions"
    /\ LET r == req[p]
           step == generator_next(r.gen)
       IN IF step.out = "yield"
          THEN /\ req' = [req EXCEPT ![p] =
                            [r EXCEPT !.gen = step.gen,
                                      !.yielded = Append(@, step.doc)]]
               /\ UNCHANGED last
          ELSE /\ req' = [req EXCEPT ![p] = NoReq]
               /\ last' = [last EXCEPT ![p] =
                             [op |-> "generate_bulk_actions",
                              index |-> r.gen.index, records |-> r.gen.records,
                              action |-> r.gen.action,
                              raised |-> IF step.out = "ValueError"
                                         THEN "ValueError" ELSE "none",
                              yielded |-> r.yielded,
                              consumed |-> step.gen.consumed]]
    /\ UNCHANGED <<indexes, links, docs, cmd>>

\* bulk_index and bulk_delete up to the for loop: the counters, the generator
\* of actions and the streaming helper are made; no request is sent yet.
\* The index exists (both functions work on an existing index).
BulkStart(p, op, index, records) ==
    /\ Ready(p)
    /\ index \in indexes
    /\ req' = [req EXCEPT ![p] =
                 [op |-> op, index |-> index, records |-> records,
                  gen |-> generate_bulk_actions(
                              index, records,
                              IF op = "bulk_index" THEN "index" ELSE "delete"),
                  pending |-> <<>>,
                  result |-> IF op = "bulk_index" THEN bulk_index_result
                             ELSE bulk_delete_result,
                  item |-> NoItem,
                  before |-> IF op = "bulk_index" THEN bulk_index_result
                             ELSE bulk_delete_result,
                  refreshes |-> 0]]
    /\ UNCHANGED <<indexes, links, docs, last, cmd>>

\* the streaming helper fills one request with the next actions of the
\* generator; the cluster carries them out and answers one response per
\* action, in the order of the actions
BulkSend(p, size, fates) ==
    /\ req[p].op \in {"bulk_index", "bulk_delete"}
    /\ req[p].pending = <<>>
    /\ req[p].gen.consumed < Len(req[p].records)
    /\ LET r == req[p]
           taken == take_actions(r.gen, size)
           served == bulk_endpoint(docs, taken.docs, fates)
       IN /\ Len(taken.docs) = Len(fates)
          /\ docs' = served.docs
          /\ req' = [req EXCEPT ![p] =
                       [r EXCEPT !.gen = taken.gen,
                                 !.pending = served.responses]]
    /\ UNCHANGED <<indexes, links, last, cmd>>

\* one turn of the for loop over the responses
BulkItem(p) ==
    /\ req[p].op \in {"bulk_index", "bulk_delete"}
    /\ req[p].pending # <<>>
    /\ LET r == req[p]
           response == Head(r.pending)
           out == IF r.op = "bulk_index"
                  THEN bulk_index_item(r.result, response, r.index)
                  ELSE bulk_delete_item(r.result, response, r.index)
       IN IF out.raised = "none"
          THEN /\ req' = [req EXCEPT ![p] =
                            [r EXCEPT !.pending = Tail(@), !.result = out.result,
                                      !.item = response, !.before = r.result]]
               /\ UNCHANGED last
          ELSE /\ req' = [req EXCEPT ![p] = NoReq]
               /\ last' = [last EXCEPT ![p] =
                             [op |-> r.op, index |-> r.index, records |-> r.records,
                              raised |-> out.raised,
                              error |-> [record |-> out.record, index |-> out.index,
                                         error |-> out.error],
                              result |-> None, refreshes |-> r.refreshes,
                              item |-> response, before |-> r.result,
                              unprocessed |-> Len(r.pending) - 1
                                  + Len(r.records) - r.gen.consumed]]
    /\ UNCHANGED <<indexes, links, docs, cmd>>

\* the responses are exhausted: the index is refreshed and the counters
\* are returned
BulkRefresh(p) ==
    /\ req[p].op \in {"bulk_index", "bulk_delete"}
    /\ responses_exhausted(req[p])
    /\ LET r == req[p]
       IN last' = [last EXCEPT ![p] =
                     [op |-> r.op, index |-> r.index, records |-> r.records,
                      raised |-> "none",
                      error |-> [record |-> "none", index |-> r.index,
                                 error |-> "none"],
                      result |-> Some(r.result), refreshes |-> r.refreshes + 1,
                      item |-> r.item, before |-> r.before,
                      unprocessed |-> Len(r.pending)
                                  + Len(r.records) - r.gen.consumed]]
    /\ req' = [req EXCEPT ![p] = NoReq]
    /\ UNCHANGED <<indexes, links, docs, cmd>>

\* the caller has the outcome; the next call starts afresh
Return(p) ==
    /\ req[p] = NoReq
    /\ last[p] # Idle
    /\ last' = [last EXCEPT ![p] = Idle]
    /\ UNCHANGED <<indexes, links, docs, req, cmd>>

\* the process of the command ends
Exit(p) ==
    /\ cmd[p].op # "none"
    /\ cmd[p].phase = "ended"
    /\ cmd' = [cmd EXCEPT ![p] = NoCmd]
    /\ UNCHANGED <<indexes, links, docs, req, last>>

\* the delete command
DeleteCommand(p, index, force, answers) ==
    /\ Ready(p)
    /\ cmd[p] = NoCmd
    /\ LET confirmed == IF force
                        THEN [raised |-> "none", value |-> TRUE, prompts |-> 0]
                        ELSE confirm_action(<<"Are you sure">>, answers)
           out == delete_index(indexes, links, index)
           ended == [op |-> "delete", phase |-> "ended", index |-> index,
                     force |-> force, answers |-> answers,
                     pre |-> links, preIndexes |-> indexes,
                     prompts |-> confirmed.prompts]
       IN IF confirmed.raised # "none"
          THEN /\ cmd' = [cmd EXCEPT ![p] =
                            ended @@ [raised |-> confirmed.raised,
                                      exit |-> exit_status(confirmed.raised),
                                      echo |-> "none"]]
               /\ UNCHANGED <<indexes, links, docs>>
          ELSE IF ~confirmed.value
          THEN /\ cmd' = [cmd EXCEPT ![p] =
                            ended @@ [raised |-> "Abort",
                                      exit |-> exit_status("Abort"),
                                      echo |-> "Ok, index will not be deleted."]]
               /\ UNCHANGED <<indexes, links, docs>>
          ELSE /\ indexes' = out.indexes
               /\ links' = out.links
               /\ docs' = {d \in docs : d[1] \in out.indexes}
               /\ cmd' = [cmd EXCEPT ![p] =
                            ended @@ [raised |-> out.raised,
                                      exit |-> exit_status(out.raised),
                                      echo |-> IF out.raised = "none"
                                               THEN "Index deleted."
                                               ELSE "none"]]
    /\ UNCHANGED <<req, last>>

\* the demote command up to its loop: the aliases of the index are read,
\* and the removal from the primary alias is to be confirmed
DemoteStart(p, index, answers) ==
    /\ Ready(p)
    /\ cmd[p] = NoCmd
    /\ LET found == get_index_aliases(indexes, links, index)
           index_aliases == IF found.value.some THEN found.value.val ELSE <<>>
           confirmed == IF PRIMARY_ALIAS \in SeqRange(index_aliases)
                        THEN confirm_action(<<"Are you sure">>, answers)
                        ELSE [raised |-> "none", value |-> TRUE, prompts |-> 0]
           frame == [op |-> "demote", phase |-> "remove", index |-> index,
                     answers |-> answers, aliases |-> index_aliases,
                     remaining |-> index_aliases,
                     pre |-> links, preIndexes |-> indexes,
                     prompts |-> IF found.raised = "none" /\ index_aliases # <<>>
                                 THEN confirmed.prompts ELSE 0,
                     raised |-> "none", exit |-> 0, echo |-> "none"]
           raised == IF found.raised # "none" THEN found.raised
                     ELSE IF index_aliases = <<>> THEN "Abort"
                     ELSE IF confirmed.raised # "none" THEN confirmed.raised
                     ELSE IF ~confirmed.value THEN "Abort"
                     ELSE "none"
           echo == IF found.raised # "none" THEN "none"
                   ELSE IF index_aliases = <<>> THEN "Index has no aliases"
                   ELSE IF confirmed.raised # "none" THEN "none"
                   ELSE IF ~confirmed.value THEN "Ok, index will not be demoted."
                   ELSE "none"
       IN cmd' = [cmd EXCEPT ![p] =
                    IF raised = "none" THEN frame
                    ELSE [frame EXCEPT !.phase = "ended", !.raised = raised,
                                       !.exit = exit_status(raised),
                                       !.echo = echo]]
    /\ UNCHANGED <<indexes, links, docs, req, last>>

\* one turn of the loop of demote: the next alias is removed from the index;
\* after the last one the command reports and ends
DemoteRemove(p, fault) ==
    /\ cmd[p].op = "demote"
    /\ cmd[p].phase = "remove"
    /\ LET c == cmd[p]
           out == remove_alias(indexes, links, c.index, Head(c.remaining), fault)
       IN /\ links' = out.links
          /\ cmd' = [cmd EXCEPT ![p] =
                       IF out.raised # "none"
                       THEN [c EXCEPT !.phase = "ended", !.raised = out.raised,
                                      !.exit = exit_status(out.raised)]
                       ELSE IF Tail(c.remaining) = <<>>
                       THEN [c EXCEPT !.phase = "ended", !.remaining = <<>>,
                                      !.echo = "Index demoted from aliases"]
                       ELSE [c EXCEPT !.remaining = Tail(@)]]
    /\ UNCHANGED <<indexes, docs, req, last>>

\* the create command
CreateCommand(p, index, source, t, fault) ==
    /\ Ready(p)
    /\ cmd[p] = NoCmd
    /\ LET name == IF truthy(source) THEN generate_index_name(source.val, t)
                   ELSE index.val
           out == create_index(indexes, name, fault)
           raised == IF validate_index_name(index) # "none"
                     THEN validate_index_name(index)
                     ELSE IF options_error(index, source) # "none"
                     THEN options_error(index, source)
                     ELSE IF out.raised = "IndexExistsError" THEN "Abort"
                     ELSE out.raised
           requested == /\ validate_index_name(index) = "none"
                        /\ options_error(index, source) = "none"
       IN /\ indexes' = IF requested THEN out.indexes ELSE indexes
          /\ cmd' = [cmd EXCEPT ![p] =
                       [op |-> "create", phase |-> "ended",
                        options |-> <<index, source>>,
                        raised |-> raised, exit |-> exit_status(raised),
                        requests |-> IF requested THEN 1 ELSE 0,
                        preIndexes |-> indexes, preDocs |-> docs]]
    /\ UNCHANGED <<links, docs, req, last>>

\* bulk-update up to its first phase: the options are validated
BulkUpdateStart(p, index, source, dataset, rev) ==
    /\ Ready(p)
    /\ cmd[p] = NoCmd
    /\ LET valid == validate_bulk_cli_options(index, source, indexes,
                                              CatAliases(links, rev))
       IN cmd' = [cmd EXCEPT ![p] =
                    [op |-> "bulk_update",
                     phase |-> IF valid.raised = "none" THEN "run" ELSE "ended",
                     options |-> <<index, source>>,
                     index |-> valid.index,
                     to_index |-> dataset[1], to_delete |-> dataset[2],
                     todo |-> bulk_update_phases, done |-> <<>>,
                     index_results |-> bulk_index_result,
                     delete_results |-> bulk_delete_result,
                     index_raised |-> "none",
                     raised |-> valid.raised, exit |-> exit_status(valid.raised),
                     requests |-> 0,
                     preIndexes |-> indexes, preDocs |-> docs]]
    /\ UNCHANGED <<indexes, links, docs, req, last>>

\* bulk-update calls bulk_index or bulk_delete on its index
BulkUpdatePhase(p) ==
    /\ cmd[p].op = "bulk_update"
    /\ cmd[p].phase = "run"
    /\ IF Head(cmd[p].todo) = "index"
       THEN BulkStart(p, "bulk_index", cmd[p].index, cmd[p].to_index)
       ELSE BulkStart(p, "bulk_delete", cmd[p].index, cmd[p].to_delete)

\* bulk-update has the outcome of a phase: the counters are merged, a
\* BulkIndexingError is logged, and after the last phase the summary is logged
BulkUpdateCollect(p) ==
    /\ cmd[p].op = "bulk_update"
    /\ cmd[p].phase = "run"
    /\ req[p] = NoReq
    /\ last[p].op \in {"bulk_index", "bulk_delete"}
    /\ LET c == cmd[p]
           phase == Head(c.todo)
           outcome == IF phase = "index" THEN index_phase_outcome(last[p])
                      ELSE [raised |-> last[p].raised,
                            results |-> IF last[p].raised = "none"
                                        THEN last[p].result.val
                                        ELSE bulk_delete_result]
           merged == [c EXCEPT
                        !.todo = Tail(@), !.done = Append(@, phase),
                        !.index_results = IF phase = "index"
                                          THEN outcome.results ELSE @,
                        !.delete_results = IF phase = "delete"
                                           THEN outcome.results ELSE @,
                        !.index_raised = IF phase = "index"
                                         THEN last[p].raised ELSE @,
                        !.requests = 1]
       IN cmd' = [cmd EXCEPT ![p] =
                    IF outcome.raised # "none"
                    THEN [merged EXCEPT !.phase = "ended",
                                        !.raised = outcome.raised,
                                        !.exit = exit_status(outcome.raised)]
                    ELSE IF Tail(c.todo) = <<>>
                    THEN [merged EXCEPT !.phase = "ended"]
                    ELSE merged]
    /\ last' = [last EXCEPT ![p] = Idle]
    /\ UNCHANGED <<indexes, links, docs, req>>

\* reindex-source up to the promotion: the new index is created
ReindexStart(p, source, alias, records, t, fault) ==
    /\ Ready(p)
    /\ cmd[p] = NoCmd
    /\ LET index == generate_index_name(source, t)
           out == create_index(indexes, index, fault)
       IN /\ indexes' = out.indexes
          /\ cmd' = [cmd EXCEPT ![p] =
                       [op |-> "reindex_source",
                        phase |-> IF out.raised = "none" THEN "run" ELSE "ended",
                        source |-> source, index |-> index,
                        aliases |-> <<source>> \o alias,
                        records |-> records,
                        todo |-> reindex_source_steps, done |-> <<"create">>,
                        index_results |-> bulk_index_result,
                        index_raised |-> "none",
                        raised |-> out.raised, exit |-> exit_status(out.raised),
                        pre |-> links, preIndexes |-> indexes]]
    /\ UNCHANGED <<links, docs, req, last>>

\* reindex-source calls promote_index or bulk_index on the new index
ReindexStep(p, rev) ==
    /\ cmd[p].op = "reindex_source"
    /\ cmd[p].phase = "run"
    /\ last[p] = Idle
    /\ IF Head(cmd[p].todo) = "promote"
       THEN PromoteRead(p, cmd[p].index, cmd[p].aliases, rev)
       ELSE BulkStart(p, "bulk_index", cmd[p].index, cmd[p].records)

\* reindex-source has the outcome of a step: an exception of promote_index
\* ends the command, a BulkIndexingError is logged, and after the last step
\* the summary is logged
ReindexCollect(p) ==
    /\ cmd[p].op = "reindex_source"
    /\ cmd[p].phase = "run"
    /\ req[p] = NoReq
    /\ last[p].op \in {"promote", "bulk_index"}
    /\ LET c == cmd[p]
           step == Head(c.todo)
           outcome == IF step = "index" THEN index_phase_outcome(last[p])
                      ELSE [raised |-> last[p].raised,
                            results |-> bulk_index_result]
           merged == [c EXCEPT
                        !.todo = Tail(@), !.done = Append(@, step),
                        !.index_results = IF step = "index"
                                          THEN outcome.results ELSE @,
                        !.index_raised = IF step = "index"
                                         THEN last[p].raised ELSE @]
       IN cmd' = [cmd EXCEPT ![p] =
                    IF outcome.raised # "none"
                    THEN [merged EXCEPT !.phase = "ended",
                                        !.raised = outcome.raised,
                                        !.exit = exit_status(outcome.raised)]
                    ELSE IF Tail(c.todo) = <<>>
                    THEN [merged EXCEPT !.phase = "ended"]
                    ELSE merged]
    /\ last' = [last EXCEPT ![p] = Idle]
    /\ UNCHANGED <<indexes, links, docs, req>>

----------------------------------------------------------------------------
(* The tool run by one operator, one call at a time *)

DoPromoteRead ==
    \E index \in IndexNames, extra \in ExtraLists, rev \in BOOLEAN :
        PromoteRead(Main, index, extra, rev)

DoPromoteSubmit == \E fault \in ClusterFaults : PromoteSubmit(Main, fault)

DoGetAllAliasedIndexesForSource ==
    \E source \in VALID_SOURCES, rev \in BOOLEAN :
        GetAllAliasedIndexesForSource(Main, source, rev)

DoGetPrimaryIndexForSource ==
    \E source \in VALID_SOURCES, rev \in BOOLEAN :
        GetPrimaryIndexForSource(Main, source, rev)

DoGetOrCreateIndexFromSource ==
    \E source \in VALID_SOURCES, new \in BOOLEAN, rev \in BOOLEAN,
       t \in Stamps :
        /\ generate_index_name(source, t) \in IndexNames
        /\ GetOrCreateIndexFromSource(Main, source, new, rev, t)

DoCreateIndex ==
    \E name \in IndexNames, fault \in CreateFaults : CreateIndex(Main, name, fault)

DoDeleteIndex == \E index \in IndexNames : DeleteIndex(Main, index)

DoRemoveAlias ==
    \E index \in IndexNames, alias \in AliasNames, fault \in ClusterFaults :
        RemoveAlias(Main, index, alias, fault)

DoReturn == Return(Main)

Next ==
    \/ DoPromoteRead
    \/ DoPromoteSubmit
    \/ DoGetAllAliasedIndexesForSource
    \/ DoGetPrimaryIndexForSource
    \/ DoGetOrCreateIndexFromSource
    \/ DoCreateIndex
    \/ DoDeleteIndex
    \/ DoRemoveAlias
    \/ DoReturn

Spec == Init /\ [][Next]_vars

\* promote alone, from any cluster
NextPromote ==
    \/ DoPromoteRead
    \/ DoPromoteSubmit
    \/ DoReturn

SpecPromote == Init /\ [][NextPromote]_vars

\* the queries and get-or-create, from any cluster
NextQuery ==
    \/ DoGetAllAliasedIndexesForSource
    \/ DoGetPrimaryIndexForSource
    \/ DoGetOrCreateIndexFromSource
    \/ DoReturn

SpecQuery == Init /\ [][NextQuery]_vars

\* create, delete and remove-alias, from any cluster
NextIndex ==
    \/ DoCreateIndex
    \/ DoDeleteIndex
    \/ DoRemoveAlias
    \/ DoReturn

SpecIndex == Init /\ [][NextIndex]_vars

DoGenerateBulkActions ==
    \E index \in IndexNames, records \in RecordStreams, action \in BulkOperations :
        GenerateBulkActions(Main, index, records, action)

DoGeneratorNext == GeneratorNext(Main)

\* the encoder of bulk actions alone; it makes no request
NextEncode ==
    \/ DoGenerateBulkActions
    \/ DoGeneratorNext
    \/ DoReturn

InitEncode == Init /\ indexes = {}

SpecEncode == InitEncode /\ [][NextEncode]_vars

DoBulkStart ==
    \E op \in {"bulk_index", "bulk_delete"}, index \in IndexNames,
       records \in RecordStreams :
        BulkStart(Main, op, index, records)

DoBulkSend ==
    \E size \in 1..MaxChunk :
        \E fates \in UNION {[1..n -> FatesOf(req[Main].op)] : n \in 1..size} :
            BulkSend(Main, size, fates)

DoBulkItem == BulkItem(Main)

DoBulkRefresh == BulkRefresh(Main)

\* the bulk runs alone
NextBulk ==
    \/ DoBulkStart
    \/ DoBulkSend
    \/ DoBulkItem
    \/ DoBulkRefresh
    \/ DoReturn

\* a cluster of one index, without aliases, with any documents
InitBulk ==
    /\ indexes \in {{i} : i \in IndexNames}
    /\ links = {}
    /\ docs \in SUBSET (indexes \X RecordIds)
    /\ req = [p \in Procs |-> NoReq]
    /\ last = [p \in Procs |-> Idle]
    /\ cmd = [p \in Procs |-> NoCmd]

SpecBulk == InitBulk /\ [][NextBulk]_vars

DoExit == Exit(Main)

DoDeleteCommand ==
    /\ cmd[Main] = NoCmd
    /\ \E index \in IndexNames : \E force \in BOOLEAN : \E answers \in Answers :
        DeleteCommand(Main, index, force, answers)

DoDemoteStart ==
    /\ cmd[Main] = NoCmd
    /\ \E index \in IndexNames : \E answers \in Answers :
        DemoteStart(Main, index, answers)

DoDemoteRemove == \E fault \in ClusterFaults : DemoteRemove(Main, fault)

\* the commands that ask for confirmation, from any cluster
NextConfirm ==
    \/ DoDeleteCommand
    \/ DoDemoteStart
    \/ DoDemoteRemove
    \/ DoExit

\* any cluster of indexes and aliases with one more link
InitConfirm ==
    /\ indexes \in SUBSET IndexNames
    /\ links \in {l \in SUBSET (AliasNames \X indexes) :
                    Cardinality(l) <= MaxInitLinks + 1}
    /\ docs = {}
    /\ req = [p \in Procs |-> NoReq]
    /\ last = [p \in Procs |-> Idle]
    /\ cmd = [p \in Procs |-> NoCmd]

SpecConfirm == InitConfirm /\ [][NextConfirm]_vars

DoCreateCommand ==
    /\ cmd[Main] = NoCmd
    /\ \E index \in IndexOptions : \E source \in SourceOptions :
        \E t \in Stamps : \E fault \in CreateFaults :
            /\ source.some => generate_index_name(source.val, t) \in IndexNames
            /\ CreateCommand(Main, index, source, t, fault)

DoBulkUpdateStart ==
    /\ cmd[Main] = NoCmd
    /\ \E index \in IndexOptions : \E source \in SourceOptions :
        \E dataset \in Datasets : \E rev \in BOOLEAN :
            BulkUpdateStart(Main, index, source, dataset, rev)

DoBulkUpdatePhase == BulkUpdatePhase(Main)

DoBulkUpdateCollect == BulkUpdateCollect(Main)

\* one create or one bulk-update command
NextUpdate ==
    \/ DoCreateCommand
    \/ DoBulkUpdateStart
    \/ DoBulkUpdatePhase
    \/ DoBulkSend
    \/ DoBulkItem
    \/ DoBulkRefresh
    \/ DoBulkUpdateCollect

\* a cluster of one index per source; the alma index may be the primary
\* index of its source and may hold documents
InitUpdate ==
    /\ indexes = {generate_index_name(source, 1) : source \in VALID_SOURCES}
    /\ links \in SUBSET {<<PRIMARY_ALIAS, generate_index_name(<<"alma">>, 1)>>}
    /\ docs \in SUBSET ({generate_index_name(<<"alma">>, 1)} \X RecordIds)
    /\ req = [p \in Procs |-> NoReq]
    /\ last = [p \in Procs |-> Idle]
    /\ cmd = [p \in Procs |-> NoCmd]

SpecUpdate == InitUpdate /\ [][NextUpdate]_vars

DoReindexStart ==
    /\ cmd[Main] = NoCmd
    /\ \E source \in VALID_SOURCES \cap AliasNames : \E alias \in ExtraLists :
        \E records \in {r \in RecordStreams : Len(r) < MaxChunk} :
            \E t \in Stamps : \E fault \in CreateFaults :
                ReindexStart(Main, source, alias, records, t, fault)

DoReindexStep == \E rev \in BOOLEAN : ReindexStep(Main, rev)

DoReindexCollect == ReindexCollect(Main)

\* one reindex-source command, on a dataset that fits in one request
NextReindex ==
    \/ DoReindexStart
    \/ DoReindexStep
    \/ DoPromoteSubmit
    \/ DoBulkSend
    \/ DoBulkItem
    \/ DoBulkRefresh
    \/ DoReindexCollect

\* a cluster of one index per source, with any aliases
InitReindex ==
    /\ indexes = {generate_index_name(source, 1) : source \in VALID_SOURCES}
    /\ links \in {l \in SUBSET (AliasNames \X indexes) :
                    Cardinality(l) <= MaxInitLinks}
    /\ docs = {}
    /\ req = [p \in Procs |-> NoReq]
    /\ last = [p \in Procs |-> Idle]
    /\ cmd = [p \in Procs |-> NoCmd]

SpecReindex == InitReindex /\ [][NextReindex]_vars

----------------------------------------------------------------------------
(* What the properties speak of; the source of an index is read off its    *)
(* name here without get_source_from_index.                                *)

IsOfSource(index, source) ==
    /\ Len(index) > Len(source)
    /\ SubSeq(index, 1, Len(source)) = source
    /\ index[Len(source) + 1] = Dash

SameSource(i, j) == \E s \in VALID_SOURCES : IsOfSource(i, s) /\ IsOfSource(j, s)

Members(lnk, alias) == {l[2] : l \in {m \in lnk : m[1] = alias}}

SourceMembers(lnk, alias, source) ==
    {i \in Members(lnk, alias) : IsOfSource(i, source)}

AliasesHolding(lnk, source) ==
    {l[1] : l \in {m \in lnk : IsOfSource(m[2], source)}}

AliasesOf(lnk, index) == {l[1] : l \in {m \in lnk : m[2] = index}}

\* every alias holds at most one index per source
WellBehaved(lnk) ==
    \A l \in lnk, m \in lnk :
        (l[1] = m[1] /\ SameSource(l[2], m[2])) => l[2] = m[2]

Promoted(p) == last[p].op = "promote" /\ last[p].raised = "none"

\* a well-behaved cluster
InitWell == Init /\ WellBehaved(links)

SpecWell == InitWell /\ [][Next]_vars

----------------------------------------------------------------------------
(* Two invocations of promote at once: no call waits for another *)

RacePromoteRead ==
    \E p \in Procs, index \in IndexNames : PromoteRead(p, index, <<>>, FALSE)

RacePromoteSubmit == \E p \in Procs : PromoteSubmit(p, "none")

NextRace ==
    \/ RacePromoteRead
    \/ RacePromoteSubmit

\* a cluster whose only alias is the primary alias
InitRace == Init /\ links \subseteq {PRIMARY_ALIAS} \X indexes

SpecRace == InitRace /\ [][NextRace]_vars

----------------------------------------------------------------------------
(* Properties of promote_index *)

\* C1: after a successful promote(X, extra), X is a member of the primary
\* alias, of every alias of extra, and of every alias that held an index of
\* X's source before the call, whatever the alias state was before.
PromoteJoinsEveryTargetAlias ==
    Promoted(Main) =>
        LET l == last[Main]
        IN \A s \in VALID_SOURCES :
              IsOfSource(l.index, s) =>
                 \A a \in {PRIMARY_ALIAS} \cup SeqRange(l.extra)
                              \cup AliasesHolding(l.pre, s) :
                     <<a, l.index>> \in links

\* C1 witness: X was in the primary alias already, an alias outside extra held
\* another index of the source, and the alias of extra did not exist.
PromoteJoinsEveryTargetAliasWitness ==
    /\ Promoted(Main)
    /\ LET l == last[Main]
       IN /\ l.extra = <<(<<"timdex">>)>>
          /\ Members(l.pre, <<"timdex">>) = {}
          /\ <<PRIMARY_ALIAS, l.index>> \in l.pre
          /\ \E i \in Members(l.pre, <<"alma">>) :
                i # l.index /\ SameSource(i, l.index)
          /\ AliasesOf(links, l.index) = AliasNames

\* C2: after a successful promote(X, extra), no index of X's source other
\* than X is a member of any alias.
PromoteLeavesNoOtherSourceIndex ==
    Promoted(Main) =>
        \A m \in links : SameSource(m[2], last[Main].index) => m[2] = last[Main].index

\* C2 witness: before the call one alias held two indexes of the source, X none.
PromoteLeavesNoOtherSourceIndexWitness ==
    /\ Promoted(Main)
    /\ LET l == last[Main]
       IN /\ AliasesOf(l.pre, l.index) = {}
          /\ \E a \in AliasNames :
                Cardinality({i \in Members(l.pre, a) : SameSource(i, l.index)}) = 2

\* C3: if exactly one index of a source is in the primary alias when a promote
\* starts, exactly one is there while the request is pending and after the
\* call, whether it succeeded or failed.
PromoteKeepsOnePrimary ==
    \A s \in VALID_SOURCES :
        /\ (req[Main].op = "promote"
              /\ Cardinality(SourceMembers(req[Main].pre, PRIMARY_ALIAS, s)) = 1)
           => Cardinality(SourceMembers(links, PRIMARY_ALIAS, s)) = 1
        /\ (last[Main].op = "promote"
              /\ Cardinality(SourceMembers(last[Main].pre, PRIMARY_ALIAS, s)) = 1)
           => Cardinality(SourceMembers(links, PRIMARY_ALIAS, s)) = 1

\* C3 witness: the promote replaced the one primary index of the source by X.
PromoteKeepsOnePrimaryWitness ==
    /\ Promoted(Main)
    /\ \E s \in VALID_SOURCES, i \in IndexNames :
          /\ i # last[Main].index
          /\ SourceMembers(last[Main].pre, PRIMARY_ALIAS, s) = {i}
          /\ SourceMembers(links, PRIMARY_ALIAS, s) = {last[Main].index}

\* C4: a promote of an index that does not exist raises IndexNotFoundError and
\* leaves the alias membership as it was; a not-found failure of another
\* type is raised as it came, and changes nothing either.
PromoteMissingIndexChangesNothing ==
    last[Main].op = "promote" =>
        LET l == last[Main]
        IN /\ (l.fault = "none" /\ ~l.existed)
                 => (l.raised = "IndexNotFoundError" /\ links = l.pre)
           /\ l.fault # "none" => (l.raised = "NotFoundError" /\ links = l.pre)

\* C4 witness: the failed request carried additions and removals.
PromoteMissingIndexChangesNothingWitness ==
    /\ last[Main].op = "promote"
    /\ last[Main].raised = "IndexNotFoundError"
    /\ last[Main].extra # <<>>
    /\ \E m \in links : SameSource(m[2], last[Main].index)

\* C5: a promote repeated right after it succeeded leaves the alias
\* membership as the first call left it.
PromoteTwiceIsPromoteOnce ==
    (last[Main].op = "promote" /\ last[Main].repeat) => links = last[Main].pre

\* C5 witness: the repeated promote succeeded, with extra aliases.
PromoteTwiceIsPromoteOnceWitness ==
    /\ Promoted(Main)
    /\ last[Main].repeat
    /\ Len(last[Main].extra) = 2
    /\ Cardinality(links) > 3

----------------------------------------------------------------------------
(* The alias invariant *)

\* C6: from a cluster in which every alias holds at most one index per source,
\* every sequence of calls made one at a time leaves every alias, the primary
\* alias among them, with at most one index per source.
AtMostOneIndexPerSource == WellBehaved(links)

\* C6 witness: a promote has replaced the primary index of a source.
AtMostOneIndexPerSourceWitness ==
    /\ Promoted(Main)
    /\ \E i \in Members(last[Main].pre, PRIMARY_ALIAS) :
          i # last[Main].index /\ SameSource(i, last[Main].index)
    /\ last[Main].index \in Members(links, PRIMARY_ALIAS)
    /\ Cardinality(Members(links, PRIMARY_ALIAS)) = 2

\* C7: when two promotes of two indexes X and Y of one source have both read
\* the aliases before either sends its request, and neither index was an
\* alias member when they read, both requests succeed and X and Y are both
\* members of the primary alias at the end.
RaceLeavesTwoPrimaries ==
    \A p \in Procs, q \in Procs :
        (/\ p # q
         /\ Promoted(p) /\ Promoted(q)
         /\ last[p].overlapped
         /\ last[p].index # last[q].index
         /\ SameSource(last[p].index, last[q].index)
         /\ AliasesOf(last[p].pre, last[p].index) = {}
         /\ AliasesOf(last[p].pre, last[q].index) = {}
         /\ AliasesOf(last[q].pre, last[p].index) = {}
         /\ AliasesOf(last[q].pre, last[q].index) = {})
        => {last[p].index, last[q].index} \subseteq Members(links, PRIMARY_ALIAS)

\* C7 witness: the two promotes raced on a cluster that had one primary index
\* of the source, and the primary alias ends with two.
RaceLeavesTwoPrimariesWitness ==
    /\ Promoted(1) /\ Promoted(2)
    /\ last[1].overlapped
    /\ last[1].index # last[2].index
    /\ last[1].pre = last[2].pre
    /\ \E s \in VALID_SOURCES :
          /\ Cardinality(SourceMembers(last[1].pre, PRIMARY_ALIAS, s)) = 1
          /\ SourceMembers(links, PRIMARY_ALIAS, s) = {last[1].index, last[2].index}

----------------------------------------------------------------------------
(* Properties of the queries *)

\* C8: get_primary_index_for_source never raises; it returns an index of the
\* source that is in the primary alias when there is one, and None otherwise,
\* also when the source has indexes only in other aliases.
PrimaryIndexOrNone ==
    last[Main].op = "get_primary_index_for_source" =>
        LET l == last[Main]
            primary == SourceMembers(l.pre, PRIMARY_ALIAS, l.source)
        IN /\ l.raised = "none"
           /\ primary = {} => l.result = None
           /\ primary # {} => (l.result.some /\ l.result.val \in primary)

\* C9: get_or_create_index_from_source returns (the primary index, False) and
\* creates nothing when new is false and the source has a primary index; in
\* every other case it creates the one index <source>-<timestamp> (a name not
\* taken yet) and returns (its name, True); it never changes an alias.
GetOrCreateContract ==
    last[Main].op = "get_or_create_index_from_source" =>
        LET l == last[Main]
            primary == SourceMembers(l.pre, PRIMARY_ALIAS, l.source)
            name == l.source \o <<Dash>> \o Timestamp(l.now)
        IN /\ links = l.pre
           /\ (~l.new /\ primary # {}) =>
                 /\ l.raised = "none"
                 /\ l.result.some /\ l.result.val \in primary
                 /\ ~l.isnew
                 /\ indexes = l.preIndexes
           /\ ((l.new \/ primary = {}) /\ name \notin l.preIndexes) =>
                 /\ l.raised = "none"
                 /\ l.result = Some(name)
                 /\ l.isnew
                 /\ indexes = l.preIndexes \cup {name}

\* C10: get_all_aliased_indexes_for_source returns, for every alias with a
\* member whose name prefix is the source, the list of exactly those members,
\* and no other alias; it returns None, and never raises, when no alias
\* holds an index of the source.
AllAliasedIndexesGrouped ==
    last[Main].op = "get_all_aliased_indexes_for_source" =>
        LET l == last[Main]
            holding == AliasesHolding(l.pre, l.source)
        IN /\ l.raised = "none"
           /\ holding = {} => l.result = None
           /\ holding # {} =>
                 /\ l.result.some
                 /\ DOMAIN l.result.val = holding
                 /\ \A a \in holding :
                       /\ SeqRange(l.result.val[a]) = SourceMembers(l.pre, a, l.source)
                       /\ Len(l.result.val[a]) = Cardinality(SourceMembers(l.pre, a, l.source))

\* C10 witness: an alias that holds an index of the source is returned, and an
\* alias that holds only another source's index is left out.
AllAliasedIndexesGroupedWitness ==
    /\ last[Main].op = "get_all_aliased_indexes_for_source"
    /\ last[Main].result.some
    /\ \E a \in AliasNames :
          /\ Members(last[Main].pre, a) # {}
          /\ a \notin DOMAIN last[Main].result.val

\* C11: when an alias holds more than one index of the queried source,
\* get_all_aliased_indexes_for_source logs one error naming that alias and
\* those indexes, and logs none for any other alias; it still returns all of
\* those indexes for the alias; this query and get_primary_index_for_source
\* leave the alias membership and the indexes as they were.
AnomalyLoggedNeverCorrected ==
    /\ last[Main].op = "get_all_aliased_indexes_for_source" =>
          LET l == last[Main]
              crowded == {a \in AliasNames :
                            Cardinality(SourceMembers(l.pre, a, l.source)) > 1}
          IN /\ links = l.pre
             /\ {e[1] : e \in l.logged} = crowded
             /\ \A e \in l.logged :
                   /\ e[2] = l.source
                   /\ SeqRange(e[3]) = SourceMembers(l.pre, e[1], l.source)
             /\ \A a \in crowded :
                   /\ l.result.some
                   /\ a \in DOMAIN l.result.val
                   /\ SeqRange(l.result.val[a]) = SourceMembers(l.pre, a, l.source)
    /\ last[Main].op = "get_primary_index_for_source" => links = last[Main].pre

\* C11 witness: the queried source has two indexes in one alias; the error is
\* logged, both are returned, and both are members still.
AnomalyLoggedNeverCorrectedWitness ==
    /\ last[Main].op = "get_all_aliased_indexes_for_source"
    /\ Cardinality(last[Main].logged) = 1
    /\ \E a \in AliasNames :
          /\ Cardinality(SourceMembers(links, a, last[Main].source)) = 2
          /\ Len(last[Main].result.val[a]) = 2

----------------------------------------------------------------------------
(* Properties of the index functions *)

\* C12: delete_index of an index that does not exist raises
\* IndexNotFoundError and leaves indexes and alias links as they were; of an
\* index that exists it raises nothing and removes that index alone, with
\* the alias links of that index and no other link.
DeleteIndexContract ==
    last[Main].op = "delete_index" =>
        LET l == last[Main]
        IN /\ l.index \notin l.preIndexes =>
                 /\ l.raised = "IndexNotFoundError"
                 /\ indexes = l.preIndexes
                 /\ links = l.pre
           /\ l.index \in l.preIndexes =>
                 /\ l.raised = "none"
                 /\ indexes = l.preIndexes \ {l.index}
                 /\ links = {m \in l.pre : m[2] # l.index}

\* C12 witness: a delete of a missing index failed while the cluster held
\* another index with an alias link.
DeleteIndexContractWitness ==
    /\ last[Main].op = "delete_index"
    /\ last[Main].raised = "IndexNotFoundError"
    /\ indexes # {}
    /\ links # {}

\* C13: create_index raises IndexExistsError when the name is taken and the
\* cluster reports that, raises the RequestError it got for any other failure,
\* and in both cases changes nothing; otherwise it adds the one index of that
\* name, with no alias link, and returns the name.
CreateIndexContract ==
    last[Main].op = "create_index" =>
        LET l == last[Main]
        IN /\ links = l.pre
           /\ l.fault # "none" =>
                 (l.raised = "RequestError" /\ indexes = l.preIndexes)
           /\ (l.fault = "none" /\ l.index \in l.preIndexes) =>
                 (l.raised = "IndexExistsError" /\ indexes = l.preIndexes)
           /\ (l.fault = "none" /\ l.index \notin l.preIndexes) =>
                 /\ l.raised = "none"
                 /\ l.result = Some(l.index)
                 /\ indexes = l.preIndexes \cup {l.index}
                 /\ AliasesOf(links, l.index) = {}

\* C13 witness: a creation failed for a reason other than a taken name.
CreateIndexContractWitness ==
    /\ last[Main].op = "create_index"
    /\ last[Main].raised = "RequestError"
    /\ last[Main].index \notin indexes

\* C14: remove_alias raises IndexNotFoundError when the index is absent,
\* AliasNotFoundError when the alias is not linked to the index, and the
\* NotFoundError it got for another not-found failure, changing nothing in
\* the three cases; otherwise it removes the one <<alias, index>> link and
\* leaves every other link and every index as it was.
RemoveAliasContract ==
    last[Main].op = "remove_alias" =>
        LET l == last[Main]
            link == <<l.alias, l.index>>
        IN /\ indexes = l.preIndexes
           /\ l.fault # "none" => (l.raised = "NotFoundError" /\ links = l.pre)
           /\ (l.fault = "none" /\ l.index \notin l.preIndexes) =>
                 (l.raised = "IndexNotFoundError" /\ links = l.pre)
           /\ (l.fault = "none" /\ l.index \in l.preIndexes /\ link \notin l.pre) =>
                 (l.raised = "AliasNotFoundError" /\ links = l.pre)
           /\ (l.fault = "none" /\ link \in l.pre) =>
                 (l.raised = "none" /\ links = l.pre \ {link})

\* C14 witness: the alias was not linked to the index, which had another
\* alias link that is still there.
RemoveAliasContractWitness ==
    /\ last[Main].op = "remove_alias"
    /\ last[Main].raised = "AliasNotFoundError"
    /\ AliasesOf(links, last[Main].index) # {}

----------------------------------------------------------------------------
(* Properties of the bulk actions *)

\* C15: for an action outside create, index, update and delete the generator
\* raises ValueError at the first draw, having yielded no action and taken
\* no record from the input.
InvalidActionYieldsNothing ==
    /\ (req[Main].op = "generate_bulk_actions"
           /\ req[Main].gen.action \notin {"create", "index", "update", "delete"})
          => (req[Main].yielded = <<>> /\ req[Main].gen.consumed = 0)
    /\ (last[Main].op = "generate_bulk_actions"
           /\ last[Main].action \notin {"create", "index", "update", "delete"})
          => /\ last[Main].raised = "ValueError"
             /\ last[Main].yielded = <<>>
             /\ last[Main].consumed = 0

\* C15 witness: the invalid action came with a stream of several records.
InvalidActionYieldsNothingWitness ==
    /\ last[Main].op = "generate_bulk_actions"
    /\ last[Main].raised = "ValueError"
    /\ Len(last[Main].records) = 2

----------------------------------------------------------------------------
(* Properties of the bulk runs *)

\* the process is in a bulk run of this kind, between two turns of the loop
InRun(p, op) == req[p].op = op

\* the bulk run of this kind has ended and returned its counters
RunReturned(p, op) == last[p].op = op /\ last[p].raised = "none"

\* an item that failed with an error other than mapper_parsing_exception
OtherFailure(item) ==
    /\ ~item.ok
    /\ item.error \notin {"none", "mapper_parsing_exception"}

\* an item that is counted in errors: a mapper_parsing_exception failure, a
\* not_found result, or a response of no expected shape
SoftFailure(item) ==
    \/ ~item.ok /\ item.error = "mapper_parsing_exception"
    \/ item.result = "not_found"
    \/ item.ok /\ item.op # "none" /\ item.result \notin {"created", "updated", "deleted"}

\* C17: after every item of a bulk run and in the counters returned,
\* total = created + updated + errors in an index run and
\* total = deleted + errors in a delete run; an empty input returns zeros.
CounterConservation ==
    /\ InRun(Main, "bulk_index") =>
          LET r == req[Main].result
          IN r.total = r.created + r.updated + r.errors
    /\ InRun(Main, "bulk_delete") =>
          LET r == req[Main].result
          IN r.total = r.deleted + r.errors
    /\ RunReturned(Main, "bulk_index") =>
          LET r == last[Main].result.val
          IN /\ r.total = r.created + r.updated + r.errors
             /\ last[Main].records = <<>> =>
                   r = [created |-> 0, updated |-> 0, errors |-> 0, total |-> 0]
    /\ RunReturned(Main, "bulk_delete") =>
          LET r == last[Main].result.val
          IN /\ r.total = r.deleted + r.errors
             /\ last[Main].records = <<>> =>
                   r = [deleted |-> 0, errors |-> 0, total |-> 0]

\* C17 witness: an index run returned counters with a record created, a
\* record updated and an error.
CounterConservationWitness ==
    /\ RunReturned(Main, "bulk_index")
    /\ last[Main].result.val.created = 1
    /\ last[Main].result.val.updated = 1
    /\ last[Main].result.val.errors = 1

\* C18: an item that fails with mapper_parsing_exception (index run), an item
\* whose result is not_found (delete run) and an item of no expected shape
\* each add one to errors and one to total and change no other counter;
\* the run goes on, and a run is aborted by no such item: a run that returns
\* has processed every record and returns its counters.
SoftFailuresNeverAbort ==
    /\ \A op \in {"bulk_index", "bulk_delete"} :
          (InRun(Main, op) /\ SoftFailure(req[Main].item)) =>
              req[Main].result =
                  [req[Main].before EXCEPT !.errors = @ + 1, !.total = @ + 1]
    /\ \A op \in {"bulk_index", "bulk_delete"} :
          (last[Main].op = op /\ SoftFailure(last[Main].item)) =>
              /\ last[Main].raised = "none"
              /\ last[Main].unprocessed = 0
              /\ last[Main].result.some
              /\ last[Main].result.val.total = Len(last[Main].records)
              /\ last[Main].result.val =
                    [last[Main].before EXCEPT !.errors = @ + 1, !.total = @ + 1]

\* C18 witness: an index run of three records returned after its first two
\* items failed softly.
SoftFailuresNeverAbortWitness ==
    /\ RunReturned(Main, "bulk_index")
    /\ Len(last[Main].records) = 3
    /\ last[Main].result.val.errors = 2
    /\ last[Main].result.val.created = 1
    /\ ~SoftFailure(last[Main].item)

FatalItemAbortsDeleteRun ==
    /\ InRun(Main, "bulk_delete") => ~OtherFailure(req[Main].item)
    /\ (last[Main].op = "bulk_delete" /\ OtherFailure(last[Main].item)) =>
          last[Main].raised = "BulkIndexingError"

\* C20 amended: a delete run never raises BulkIndexingError; an item that
\* fails with any error adds one to errors and one to total, and the run
\* goes on to the refresh and returns its counters.
FailedItemCountedInDeleteRun ==
    /\ (InRun(Main, "bulk_delete") /\ OtherFailure(req[Main].item)) =>
          req[Main].result =
              [req[Main].before EXCEPT !.errors = @ + 1, !.total = @ + 1]
    /\ last[Main].op = "bulk_delete" =>
          /\ last[Main].raised = "none"
          /\ last[Main].refreshes = 1
          /\ last[Main].result.some
          /\ last[Main].result.val.total = Len(last[Main].records)
          /\ OtherFailure(last[Main].item) =>
                last[Main].result.val =
                    [last[Main].before EXCEPT !.errors = @ + 1, !.total = @ + 1]

\* C20 witness: a delete run returned after an item failed with
\* cluster_block_exception and a later item was deleted.
FailedItemCountedInDeleteRunWitness ==
    /\ RunReturned(Main, "bulk_delete")
    /\ last[Main].result.val.errors = 1
    /\ last[Main].result.val.deleted = 1
    /\ last[Main].item.result = "deleted"
    /\ last[Main].before.errors = 1

\* C21: a bulk run that returns its counters has issued one refresh, with
\* no response pending and no action left in the generator, an empty input
\* included; while the run is processing items no refresh has been issued.
OneRefreshAfterLastItem ==
    \A op \in {"bulk_index", "bulk_delete"} :
        /\ InRun(Main, op) => req[Main].refreshes = 0
        /\ RunReturned(Main, op) =>
              /\ last[Main].refreshes = 1
              /\ last[Main].unprocessed = 0
              /\ last[Main].result.some

\* C21 witness: a delete run of three records returned after its refresh.
OneRefreshAfterLastItemWitness ==
    /\ RunReturned(Main, "bulk_delete")
    /\ Len(last[Main].records) = 3
    /\ last[Main].refreshes = 1
    /\ last[Main].item # NoItem

\* C25: every item processed adds exactly one to total, so total is the
\* number of responses processed so far, and a run that returns has
\* total = the number of records of the input.
TotalCountsEveryItem ==
    \A op \in {"bulk_index", "bulk_delete"} :
        /\ InRun(Main, op) =>
              /\ req[Main].item # NoItem =>
                    req[Main].result.total = req[Main].before.total + 1
              /\ req[Main].result.total =
                    req[Main].gen.consumed - Len(req[Main].pending)
        /\ RunReturned(Main, op) =>
              last[Main].result.val.total = Len(last[Main].records)

\* C25 witness: a delete run of three records returned total = 3 with one
\* item deleted and two counted as errors.
TotalCountsEveryItemWitness ==
    /\ RunReturned(Main, "bulk_delete")
    /\ last[Main].result.val.total = 3
    /\ last[Main].result.val.deleted = 1
    /\ last[Main].result.val.errors = 2

\* C26: a promote, succeeded or failed, leaves every index of another
\* source in exactly the aliases it was in before, the primary alias and
\* the aliases the promoted index is added to included.
PromoteKeepsOtherSources ==
    last[Main].op = "promote" =>
        \A i \in IndexNames :
            ~SameSource(i, last[Main].index) =>
                AliasesOf(links, i) = AliasesOf(last[Main].pre, i)

\* C26 witness: a promote replaced an index of its source in the primary
\* alias while an index of another source stays in the primary alias and in
\* an extra alias the promoted index has joined.
PromoteKeepsOtherSourcesWitness ==
    /\ Promoted(Main)
    /\ \E i \in Members(last[Main].pre, PRIMARY_ALIAS) :
          i # last[Main].index /\ SameSource(i, last[Main].index)
    /\ \E j \in indexes :
          /\ ~SameSource(j, last[Main].index)
          /\ AliasesOf(links, j) = {PRIMARY_ALIAS, <<"timdex">>}
          /\ last[Main].index \in Members(links, <<"timdex">>)

\* the command of this name has ended
CommandEnded(p, op) == cmd[p].op = op /\ cmd[p].phase = "ended"

\* the user declines: the answer that ends the prompt is n
Declined(answers) == lower(answers[Len(answers)]) = "n"

\* alias a comes before alias b in sorted order
Precedes(a, b) ==
    \E j, k \in DOMAIN AliasOrder :
        j < k /\ AliasOrder[j] = a /\ AliasOrder[k] = b

\* C23: a delete without --force and a demote of an index of the primary
\* alias prompt the user; when the user declines, the indexes and the alias
\* links are as before and the command ends with Abort, exit status 1;
\* a delete with --force issues no prompt.
DeclinedConfirmationAborts ==
    LET c == cmd[Main]
    IN /\ (CommandEnded(Main, "delete") /\ ~c.force /\ Declined(c.answers)) =>
             /\ c.prompts = Len(c.answers)
             /\ indexes = c.preIndexes /\ links = c.pre
             /\ c.raised = "Abort" /\ c.exit = 1
       /\ (CommandEnded(Main, "demote") /\ Declined(c.answers)
              /\ c.index \in c.preIndexes
              /\ PRIMARY_ALIAS \in AliasesOf(c.pre, c.index)) =>
             /\ c.prompts = Len(c.answers)
             /\ indexes = c.preIndexes /\ links = c.pre
             /\ c.raised = "Abort" /\ c.exit = 1
       /\ (CommandEnded(Main, "delete") /\ c.force) => c.prompts = 0

RemovalFailed(p) ==
    /\ CommandEnded(p, "demote")
    /\ cmd[p].aliases # <<>>
    /\ cmd[p].raised \in {"AliasNotFoundError", "IndexNotFoundError", "NotFoundError"}

\* C29: when the removal of an alias fails in demote, the links of the
\* index to the aliases before it in sorted order are removed, and its
\* links to that alias and to the later ones are in place; no other link
\* has changed.
DemoteStopsAtFailedRemoval ==
    RemovalFailed(Main) =>
        LET c == cmd[Main]
            failed == Head(c.remaining)
        IN links = c.pre \ {<<b, c.index>> : b \in {a \in AliasesOf(c.pre, c.index) :
                                                       Precedes(a, failed)}}

\* C29 witness: the second of two removals failed; the index is out of alma
\* and still in timdex.
DemoteStopsAtFailedRemovalWitness ==
    /\ RemovalFailed(Main)
    /\ AliasesOf(cmd[Main].pre, cmd[Main].index) = {<<"alma">>, <<"timdex">>}
    /\ AliasesOf(links, cmd[Main].index) = {<<"timdex">>}

\* the record ids of a stream, and the places of one id in it
IdsOf(records) == {records[k].timdex_record_id : k \in DOMAIN records}

Occurrences(id, records) ==
    Cardinality({k \in DOMAIN records : records[k].timdex_record_id = id})

\* C22: when the index phase of bulk-update raises BulkIndexingError, the
\* delete phase runs next on the same index with the records to delete, and
\* the command ends with exit status 0 and a summary whose index counters
\* are all zero beside the counters the delete phase returned.
BulkUpdateSurvivesIndexingError ==
    LET c == cmd[Main]
    IN (c.op = "bulk_update" /\ c.index_raised = "BulkIndexingError") =>
          /\ c.index_results = bulk_index_result
          /\ c.raised = "none" /\ c.exit = 0
          /\ c.phase = "run" => c.todo = <<"delete">>
          /\ InRun(Main, "bulk_delete") =>
                /\ req[Main].index = c.index
                /\ req[Main].records = c.to_delete
          /\ c.phase = "ended" =>
                /\ c.done = <<"index", "delete">>
                /\ c.delete_results.total = Len(c.to_delete)

\* C22 witness: the index phase raised on its first record, the delete
\* phase deleted a document, and the command ended with exit status 0.
BulkUpdateSurvivesIndexingErrorWitness ==
    /\ CommandEnded(Main, "bulk_update")
    /\ cmd[Main].index_raised = "BulkIndexingError"
    /\ cmd[Main].delete_results.deleted = 1
    /\ cmd[Main].exit = 0
    /\ docs # cmd[Main].preDocs

\* C24: a create or a bulk-update that is passed both --index and --source,
\* or neither, ends as a usage error with exit status 2 and has sent no
\* request: the indexes and the documents are as before.
BothOrNeitherOptionRejected ==
    LET c == cmd[Main]
    IN (c.op \in {"create", "bulk_update"}
          /\ c.options[1].some = c.options[2].some) =>
            /\ c.phase = "ended"
            /\ c.raised \in {"UsageError", "BadParameter"}
            /\ c.exit = 2
            /\ c.requests = 0
            /\ req[Main] = NoReq
            /\ indexes = c.preIndexes /\ docs = c.preDocs

\* C30 as stated: the delete phase of bulk-update starts only after the
\* index phase has ended, and after a completed run every record id of
\* both sets is absent from the index.
DeleteAfterIndexLeavesAbsent ==
    LET c == cmd[Main]
    IN c.op = "bulk_update" =>
          /\ InRun(Main, "bulk_index") => c.done = <<>>
          /\ InRun(Main, "bulk_delete") => c.done = <<"index">>
          /\ (c.phase = "ended" /\ c.exit = 0) =>
                \A id \in IdsOf(c.to_index) \cap IdsOf(c.to_delete) :
                    <<c.index, id>> \notin docs

\* C30 amended: the delete phase of bulk-update starts only after the index
\* phase has ended, and after a completed run a record id of both sets is
\* absent from the index unless every delete action for it failed, each of
\* them counted in the delete errors of the summary.
DeleteAfterIndexLeavesAbsentUnlessFailed ==
    LET c == cmd[Main]
    IN c.op = "bulk_update" =>
          /\ InRun(Main, "bulk_index") => c.done = <<>>
          /\ InRun(Main, "bulk_delete") => c.done = <<"index">>
          /\ (c.phase = "ended" /\ c.exit = 0) =>
                /\ c.done = <<"index", "delete">>
                /\ \A id \in IdsOf(c.to_index) \cap IdsOf(c.to_delete) :
                      \/ <<c.index, id>> \notin docs
                      \/ c.delete_results.errors >= Occurrences(id, c.to_delete)

\* C30 witness: a record that was not in the index was created by the index
\* phase and deleted by the delete phase of one completed run.
DeleteAfterIndexLeavesAbsentUnlessFailedWitness ==
    /\ CommandEnded(Main, "bulk_update")
    /\ cmd[Main].exit = 0
    /\ cmd[Main].index_results.created = 1
    /\ cmd[Main].delete_results.deleted = 1
    /\ \E id \in IdsOf(cmd[Main].to_index) \cap IdsOf(cmd[Main].to_delete) :
          /\ <<cmd[Main].index, id>> \notin cmd[Main].preDocs
          /\ <<cmd[Main].index, id>> \notin docs

\* the aliases reindex-source promotes its index to
ReindexAliases(c) == {PRIMARY_ALIAS} \cup SeqRange(c.aliases)

\* the new index is the only index of the source in each of these aliases
LiveIndex(c) ==
    \A alias \in ReindexAliases(c) :
        SourceMembers(links, alias, c.source) = {c.index}

\* C28: reindex-source creates its index, then promotes it, then indexes:
\* the promote request is built when the index exists and is empty, no
\* record is indexed before the promotion, after the promotion and before
\* the first record the index is empty and is the only index of the source
\* in the primary alias, the source alias and the extra aliases, and so it
\* is when the command has completed.
ReindexCreatesPromotesIndexes ==
    LET c == cmd[Main]
        documents == {d \in docs : d[1] = c.index}
    IN c.op = "reindex_source" =>
          /\ req[Main].op = "promote" =>
                /\ c.done = <<"create">>
                /\ c.index \in indexes
                /\ documents = {}
          /\ InRun(Main, "bulk_index") =>
                /\ c.done = <<"create", "promote">>
                /\ LiveIndex(c)
          /\ documents # {} => (Len(c.done) >= 2 /\ c.done[2] = "promote")
          /\ (c.phase = "run" /\ c.done = <<"create", "promote">>
                 /\ Ready(Main)) =>
                /\ LiveIndex(c)
                /\ documents = {}
          /\ (c.phase = "ended" /\ c.exit = 0) =>
                /\ c.done = <<"create", "promote", "index">>
                /\ LiveIndex(c)

\* C28 witness: a reindex-source with an extra alias completed and indexed a
\* record into an index that replaced the former primary index of the
\* source.
ReindexCreatesPromotesIndexesWitness ==
    /\ CommandEnded(Main, "reindex_source")
    /\ cmd[Main].exit = 0
    /\ cmd[Main].index_results.created = 1
    /\ <<"timdex">> \in SeqRange(cmd[Main].aliases)
    /\ \E old \in Members(cmd[Main].pre, PRIMARY_ALIAS) :
          /\ IsOfSource(old, cmd[Main].source)
          /\ old \notin Members(links, PRIMARY_ALIAS)
    /\ docs # {}

====
